---- MODULE Spec2Model ----
(***************************************************************************)
(* State-machine model of jvcprojector.device.JvcDevice: the send()        *)
(* executor (lock, keepalive window, connect/handshake, per-command        *)
(* exchange), the deferred disconnect task and the explicit disconnect().  *)
(*                                                                         *)
(* Bytes are integers 0..255, Python bytes/str values are sequences of     *)
(* them.  Time is counted in ticks of 50 ms (20 ticks per second), the     *)
(* greatest common unit of the sleeps of device.py (0.2, 0.25, 0.75, 2 s). *)
(* Every await of device.py is a separate step; the code between two       *)
(* awaits runs atomically, as under the asyncio event loop.                *)
(***************************************************************************)
EXTENDS Integers, Sequences, FiniteSets, TLC

\* ------------------------------------------------------------------ bounds
\* Number of concurrent callers of send()/disconnect() on the one device.
NumCallers == 2
\* Longest command batch a caller passes to send().
MaxBatch == 2
\* Slots for deferred-disconnect tasks that exist at the same time.
MaxTasks == 2

Callers == 1..NumCallers
TaskIds == 1..MaxTasks

\* --------------------------------------------------- protocol constants
PJOK == <<80, 74, 95, 79, 75>>
PJNG == <<80, 74, 95, 78, 71>>
PJREQ == <<80, 74, 82, 69, 81>>
PJACK == <<80, 74, 65, 67, 75>>
PJNAK == <<80, 74, 78, 65, 75>>
UNIT_ID == <<137, 1>>
HEAD_OP == <<33>> \o UNIT_ID
HEAD_REF == <<63>> \o UNIT_ID
HEAD_RES == <<64>> \o UNIT_ID
HEAD_ACK == <<6>> \o UNIT_ID
HEAD_LEN == 1 + Len(UNIT_ID)
END == <<10>>
AUTH_SALT == <<74, 86, 67, 75, 87, 80, 74>>

\* const.ON, const.STANDBY as strings of code points ("on", "standby").
ON == <<111, 110>>
STANDBY == <<115, 116, 97, 110, 100, 98, 121>>

\* KEEPALIVE_TTL is in seconds; the sleeps below are in ticks.
KEEPALIVE_TTL == 2
MAX_RETRIES == 10
RateLimitFloor == 15
ThrottleDelay == 4
BusyBackoff == 5
RefusedBackoff == 4

\* Python's None where a str is expected (no str holds a negative code point).
NONE == <<-1>>

\* The opcode of the power command: the prefix JvcCommand.is_power tests for.
CMD_POWER == <<80, 87>>
\* Power-on operation "PW1" and the software version query "IFSV"
\* (a query for which JvcCommand.formatters holds no pattern).
OP_POWER_ON == <<80, 87, 49>>
CMD_VERSION == <<73, 70, 83, 86>>

\* ------------------------------------------------------- pure functions
Min(a, b) == IF a < b THEN a ELSE b

\* bytes.startswith
StartsWith(data, prefix) ==
    /\ Len(data) >= Len(prefix)
    /\ SubSeq(data, 1, Len(prefix)) = prefix

\* Python slice data[lo:hi] with 0-based lo and a negative hi counted from
\* the end, as in data[HEAD_LEN + 2 : -1].
Slice(data, lo, hiFromEnd) ==
    IF Len(data) - hiFromEnd < lo + 1 THEN <<>>
    ELSE SubSeq(data, lo + 1, Len(data) - hiFromEnd)

\* One hexadecimal digit as its ASCII code point ("0".."9", "a".."f").
HexDigit(n) == IF n < 10 THEN 48 + n ELSE 87 + n

\* bytes.hex()
RECURSIVE Hex(_)
Hex(data) ==
    IF data = <<>> THEN <<>>
    ELSE <<HexDigit(Head(data) \div 16), HexDigit(Head(data) % 16)>> \o Hex(Tail(data))

\* bytes.decode() succeeds on the payloads drawn here exactly when every
\* byte is ASCII: the only non-ASCII byte the device sends is 0xFF, which
\* no UTF-8 sequence contains.
Decodable(data) == \A k \in 1..Len(data) : data[k] < 128

\* JvcCommand.is_power
is_power(cmd) == StartsWith(cmd.code, CMD_POWER)

\* const.VAL_POWER: the value table of the power query.
VAL_POWER == (48 :> STANDBY) @@ (49 :> ON)

\* Mutant of response: a text the formatter has no entry for yields None.
response_UnmappedNone(cmd) ==
    IF ~cmd.is_ref \/ cmd.response = NONE THEN NONE
    ELSE LET res == cmd.code \o cmd.response
             val == Slice(res, Len(cmd.code), 0)
         IN IF StartsWith(res, CMD_POWER) /\ Len(res) = Len(CMD_POWER) + 1
            THEN IF res[Len(res)] \in DOMAIN VAL_POWER
                 THEN VAL_POWER[res[Len(res)]]
                 ELSE NONE
            ELSE val

\* JvcCommand.response (the property getter): None unless the command is a
\* query with a stored response; the stored text mapped through the
\* formatter whose pattern matches code + text, the text itself when the
\* formatter has no entry for it or when no pattern matches.
response(cmd) ==
    IF ~cmd.is_ref \/ cmd.response = NONE THEN NONE
    ELSE LET res == cmd.code \o cmd.response
             val == Slice(res, Len(cmd.code), 0)
         IN IF StartsWith(res, CMD_POWER) /\ Len(res) = Len(CMD_POWER) + 1
            THEN IF res[Len(res)] \in DOMAIN VAL_POWER
                 THEN VAL_POWER[res[Len(res)]]
                 ELSE val
            ELSE val

\* JvcCommand.__init__
JvcCommand(code, is_ref) ==
    [code |-> code, is_ref |-> is_ref, ack |-> FALSE, response |-> NONE]

\* The commands callers build batches from.
CmdPool ==
    { JvcCommand(CMD_POWER, TRUE),
      JvcCommand(OP_POWER_ON, FALSE),
      JvcCommand(CMD_VERSION, TRUE) }

Batches == UNION { [1..n -> CmdPool] : n \in 1..MaxBatch }

\* Mutant of FrameOf: the query header on every frame.
FrameOf_AlwaysRef(cmd) == HEAD_REF \o cmd.code \o END

\* The frame _send writes for a command.
FrameOf(cmd) == (IF cmd.is_ref THEN HEAD_REF ELSE HEAD_OP) \o cmd.code \o END

\* ---------------------------------------------------- the environment
\* What the device can answer to the greeting read, to an auth read and to
\* a readline.  BAD_TOKEN is a five-byte reply that is no protocol token.
BAD_TOKEN == <<66, 65, 68, 33, 33>>
GreetReplies == {PJOK, PJNG, BAD_TOKEN}
AuthReplies == {PJACK, PJNAK, BAD_TOKEN}
Prefixes == {<<80, 87>>, <<73, 70>>}
Payloads == {<<48>>, <<49>>, <<57>>, <<255>>}
AckLines == { HEAD_ACK \o pfx \o END : pfx \in Prefixes }
ResLines == { HEAD_RES \o pfx \o pay \o END : pfx \in Prefixes, pay \in Payloads }
DeviceLines == AckLines \cup ResLines

\* JvcConnection.read / readline: the bytes read, asyncio.TimeoutError, or
\* a ConnectionError.  On a connection that has been closed under the
\* reader no data arrives.
Timeout == [kind |-> "timeout", data |-> <<>>]
ConnError == [kind |-> "error", data |-> <<>>]
ReadOutcomes(replies, open) ==
    {Timeout, ConnError}
        \cup (IF open THEN { [kind |-> "data", data |-> d] : d \in replies } ELSE {})

\* JvcConnection.write: the buffer is written, or a ConnectionError.
WriteOutcomes == {"ok", "error"}

\* JvcConnection.connect: the stream is opened, ConnectionRefusedError,
\* asyncio.TimeoutError, or another ConnectionError.
ConnectOutcomes == {"ok", "refused", "timeout", "error"}

\* ----------------------------------------------------------------- state
VARIABLES
    lock,            \* self._lock: 0 when free, else the caller holding it
    connected,       \* self._conn.is_connected()
    self_keepalive,  \* self._keepalive: 0 for None, else the task it refers to
    tasks,           \* the deferred-disconnect tasks, by slot
    sinceLast,       \* time() - self._last, saturated at RateLimitFloor
    frame,           \* per caller: the locals and position of its send()
    password,        \* the password given to __init__, <<>> when there is none
    handshaken       \* the connection now open has had its auth acknowledged

\* The state of the JvcProjector built on the device (projector.py).
VARIABLES
    self_device,     \* self._device is not None
    self_ip,         \* self._ip is not empty
    self_model,      \* self._model
    self_version,    \* self._version
    self_dict,       \* self._dict, by key
    pframe           \* per caller: the locals and position of its projector call

dvars == <<lock, connected, self_keepalive, tasks, sinceLast, frame, password, handshaken>>
pvars == <<self_device, self_ip, self_model, self_version, self_dict, pframe>>
vars == <<dvars, pvars>>

NoExc == <<"None", "">>
FreeTask == [st |-> "free", left |-> 0]

\* The loop variable cmd of send before "cmd = None" has run.
Unbound == -1

\* No read has been made yet for a command.
NoRead == [stage |-> "none", kind |-> "none", data |-> <<>>]

\* A caller that is not inside send().  cmds, idx (the position of cmd in
\* cmds), is_refresh, keepalive, retry are the locals of send and _connect;
\* wlog is what the call has written to the connection, rx the outcome of
\* the last read made for each command, cut whether disconnect() closed
\* the connection under the call, entry_keepalive and entry_connected what
\* the call found on entry.  nconnect, ngreet, nrefused, nbusy count the
\* connect calls, the greeting reads, the refused connects and the busy
\* greetings of the call's _connect; they are kept until the first
\* acknowledgement read of the call ends.  gto tells that a greeting read
\* of the call timed out, ginv that one returned neither token, arx lists the outcomes of its auth reads.
IdleFrame ==
    [ pc |-> "idle", cmds |-> <<>>, idx |-> Unbound, is_refresh |-> FALSE,
      keepalive |-> FALSE, exc |-> NoExc, retry |-> 0, timer |-> 0,
      wlog |-> <<>>, rx |-> <<>>, cut |-> FALSE,
      nconnect |-> 0, ngreet |-> 0, nrefused |-> 0, nbusy |-> 0,
      gto |-> FALSE, ginv |-> FALSE, arx |-> <<>>,
      entry_keepalive |-> FALSE, entry_connected |-> FALSE ]

\* The passwords a device is constructed with: none, "pw" (shorter than
\* the credential field) and "0123456789a" (longer than the field).
Passwords == { <<>>, <<112, 119>>, <<48, 49, 50, 51, 52, 53, 54, 55, 56, 57, 97>> }

\* The width of the legacy credential field: the 10 of max(10, len(password)).
AuthFieldLen == 10

\* Mutant of Pack: no padding.
Pack_NoPad(n, data) == data

\* struct.pack(f"{n}s", data): data right-padded with NUL bytes to n bytes.
Pack(n, data) == data \o [k \in 1..(n - Len(data)) |-> 0]

\* JvcDevice.__init__: self._auth, empty without a password, else the
\* password padded to max(10, len(password)) bytes.
self_auth ==
    IF password = <<>> THEN <<>>
    ELSE Pack((IF Len(password) > AuthFieldLen THEN Len(password) ELSE AuthFieldLen),
              password)

\* A key self._dict does not hold (dict.get gives None for it).
ABSENT == <<-2>>

\* The keys of self._dict that are modelled: those get_state reads back
\* (model, power, source, hdr) and input.  The values stored under the
\* other keys are never read by the projector and are not kept.
Keys == {"model", "power", "input", "source", "hdr"}

\* A caller that is not inside a call of the projector.  call names the
\* method, gi is the get_info argument of connect, batch the number of the
\* get_state batch being sent; sent lists the batches the call has passed
\* to JvcDevice.send, created tells that the call has made a JvcDevice,
\* entry_device whether self._device was set when the call began, power
\* and source are the responses the call itself got to its power and
\* source queries.
PIdle ==
    [ pc |-> "idle", call |-> "", gi |-> FALSE, batch |-> 0, exc |-> NoExc,
      sent |-> <<>>, created |-> FALSE, entry_device |-> FALSE,
      power |-> NONE, source |-> NONE ]

\* JvcProjector.__init__
PInit ==
    /\ self_device = FALSE
    /\ self_ip = FALSE
    /\ self_model = <<>>
    /\ self_version = <<>>
    /\ self_dict = [k \in Keys |-> ABSENT]
    /\ pframe = [c \in Callers |-> PIdle]

Init ==
    /\ PInit
    /\ lock = 0
    /\ connected = FALSE
    /\ self_keepalive = 0
    /\ tasks = [t \in TaskIds |-> FreeTask]
    /\ sinceLast = RateLimitFloor
    /\ frame = [p \in Callers |-> IdleFrame]
    /\ password \in Passwords
    /\ handshaken = FALSE

InSend(p) == frame[p].pc \notin {"idle", "done"}
Sleeping(f) == f.pc \in {"rate_limit", "refused_sleep", "busy_sleep", "throttle"}

\* Mutant of CanAcquire: the lock is never waited for.
CanAcquire_NoLock(p) == TRUE

\* asyncio.Lock: acquire() returns at once only when the lock is free.
CanAcquire(p) == lock = 0

\* Mutant of EntryKeepalive: the two branches tested in the other order,
\* a refresh batch never keeps the keepalive.
EntryKeepalive_RefreshFirst(task, is_refresh) == ~is_refresh

\* Mutant of EntryKeepalive: the refresh batch keeps its keepalive.
EntryKeepalive_Always(task, is_refresh) == TRUE

\* The keepalive flag of send after its entry block: a pending window is
\* folded into the batch; otherwise a refresh batch must not start one.
EntryKeepalive(task, is_refresh) ==
    IF task # 0 THEN TRUE ELSE ~is_refresh

\* Mutant of Cancel: the pending deferred disconnect is not cancelled.
Cancel_Forgotten(ts, t) == ts

\* Mutant of Cancel: only a task whose sleep is already over is stopped.
Cancel_OnlyExpired(ts, t) ==
    IF t # 0 /\ ts[t].st = "sleeping" /\ ts[t].left = 0
    THEN [ts EXCEPT ![t] = FreeTask]
    ELSE ts

\* asyncio.Task.cancel() on a deferred disconnect: a task still sleeping
\* gets CancelledError at its await and ends without running the rest of
\* _disconnect; a finished task is not affected.
Cancel(ts, t) ==
    IF t # 0 /\ ts[t].st = "sleeping"
    THEN [ts EXCEPT ![t] = FreeTask]
    ELSE ts

\* asyncio.create_task(self._disconnect(KEEPALIVE_TTL)): the lowest free slot.
FreeSlots(ts) == { t \in TaskIds : ts[t].st = "free" }
NewTask(ts) == CHOOSE t \in FreeSlots(ts) : \A u \in FreeSlots(ts) : t <= u

\* Mutant of Raise: the except clause does not clear keepalive.
Raise_KeepsKeepalive(f, cls, msg) == [f EXCEPT !.exc = <<cls, msg>>]

\* A raise inside the try of send: "except Exception: keepalive = False".
Raise(f, cls, msg) == [f EXCEPT !.exc = <<cls, msg>>, !.keepalive = FALSE]

\* The finally clause of send, run with the frame f reached so far: the
\* keepalive-or-disconnect decision, then the release of the lock.
\* cmd is cmds[idx]; idx = 0 is "cmd = None".  With keepalive still True
\* and cmd not yet bound, the condition raises UnboundLocalError and the
\* clause ends without disconnecting.
KeepaliveEligible(f) == f.keepalive /\ f.idx > 0 /\ f.cmds[f.idx].ack

\* Mutant of FinallyFails: cmd is read before keepalive is tested, so the
\* clause ends without disconnecting whenever cmd is not bound.
FinallyFails_CmdFirst(f) == f.idx = Unbound

\* Mutant of FinallyFails: with keepalive still True and the last command
\* not acknowledged the clause ends without disconnecting.
FinallyFails_Unacked(f) == f.keepalive /\ ~KeepaliveEligible(f)

FinallyFails(f) == f.keepalive /\ f.idx = Unbound

\* The device state a step works on.
Dev ==
    [lock |-> lock, connected |-> connected,
     self_keepalive |-> self_keepalive, tasks |-> tasks, handshaken |-> handshaken]

Finally(p, f, d) ==
    /\ CASE FinallyFails(f) ->
              /\ tasks' = d.tasks
              /\ self_keepalive' = d.self_keepalive
              /\ connected' = d.connected
              /\ handshaken' = d.handshaken
         [] KeepaliveEligible(f) ->
              /\ FreeSlots(d.tasks) # {}
              /\ tasks' = [d.tasks EXCEPT ![NewTask(d.tasks)] =
                              [st |-> "sleeping", left |-> KEEPALIVE_TTL * 20]]
              /\ self_keepalive' = NewTask(d.tasks)
              /\ connected' = d.connected
              /\ handshaken' = d.handshaken
         [] OTHER ->
              /\ tasks' = d.tasks
              /\ self_keepalive' = 0
              /\ connected' = FALSE
              /\ handshaken' = FALSE
    /\ lock' = 0
    /\ frame' = [frame EXCEPT ![p] =
                    [f EXCEPT !.pc = "done", !.timer = 0, !.retry = 0,
                              !.exc = IF FinallyFails(f)
                                      THEN <<"UnboundLocalError", "">> ELSE @]]

\* A step of send, from device state d: it ends at an await (f.pc is the
\* await reached) or runs into the finally clause.
Continue(p, f, d) ==
    IF f.pc = "finally"
    THEN Finally(p, f, d)
    ELSE /\ frame' = [frame EXCEPT ![p] = f]
         /\ lock' = d.lock
         /\ connected' = d.connected
         /\ self_keepalive' = d.self_keepalive
         /\ tasks' = d.tasks
         /\ handshaken' = d.handshaken

Step(p, f) == Continue(p, f, Dev)

Fail(f, cls, msg) == [Raise(f, cls, msg) EXCEPT !.pc = "finally"]

\* Mutant of BeginCmd: without the assertion, the frame is written whether
\* the connection is open or not.
BeginCmd_NoAssert(f, k, conn) ==
    LET g == [f EXCEPT !.idx = k] IN
    { [g EXCEPT !.wlog = Append(@, FrameOf(g.cmds[k])), !.pc = "ack"],
      Fail(g, "ConnectionError", "") }

\* _send up to its first read: the assertion, the frame, the write.
BeginCmd(f, k, conn) ==
    LET g == [f EXCEPT !.idx = k] IN
    IF ~conn THEN { Fail(g, "AssertionError", "") }
    ELSE { [g EXCEPT !.wlog = Append(@, FrameOf(g.cmds[k])), !.pc = "ack"],
           Fail(g, "ConnectionError", "") }

\* Mutant of NextCmd: a command that was not acknowledged is sent again.
NextCmd_Retries(f, conn) ==
    IF ~f.cmds[f.idx].ack
    THEN BeginCmd(f, f.idx, conn)
    ELSE IF f.idx = Len(f.cmds)
         THEN { [f EXCEPT !.pc = "finally"] }
         ELSE BeginCmd(f, f.idx + 1, conn)

\* Mutant of NextCmd: without the power-off break.
NextCmd_NoBreak(f, conn) ==
    IF f.idx = Len(f.cmds)
    THEN { [f EXCEPT !.pc = "finally"] }
    ELSE BeginCmd(f, f.idx + 1, conn)

\* The for loop of send after command idx has been exchanged and the
\* throttle sleep is over: the power-off break, the end of the batch, or
\* the next command.
NextCmd(f, conn) ==
    IF f.is_refresh /\ response(f.cmds[1]) # ON
    THEN { [f EXCEPT !.pc = "finally"] }
    ELSE IF f.idx = Len(f.cmds)
         THEN { [f EXCEPT !.pc = "finally"] }
         ELSE BeginCmd(f, f.idx + 1, conn)

\* _authenticate's write of a credential inside _connect's try: a
\* ConnectionError becomes JvcProjectorConnectError.
AuthWrite(f, cred, next) ==
    { [f EXCEPT !.wlog = Append(@, PJREQ \o cred), !.pc = next],
      Fail(f, "JvcProjectorConnectError", "") }

\* --------------------------------------------------------------- actions
\* _rate_limit followed by the first connect of _connect's retry loop:
\* sleep the remainder of the floor, or stamp self._last and connect.
EnterConnect(f) ==
    IF sinceLast < RateLimitFloor
    THEN [f EXCEPT !.pc = "rate_limit", !.timer = RateLimitFloor - sinceLast]
    ELSE [f EXCEPT !.pc = "connect", !.retry = 0]

\* send(cmds) from its call to its first await: the lock is taken, the
\* pending deferred disconnect is cancelled or the refresh batch loses its
\* keepalive, and the connection is used or opened.
SendEnter(p, batch) ==
    /\ frame[p].pc = "idle"
    /\ CanAcquire(p)
    /\ UNCHANGED <<password, pvars>>
    /\ LET is_refresh == Len(batch) > 1 /\ batch[1].is_ref /\ is_power(batch[1])
           f0 == [IdleFrame EXCEPT
                    !.cmds = batch,
                    !.rx = [i \in 1..Len(batch) |-> NoRead],
                    !.is_refresh = is_refresh,
                    !.keepalive = EntryKeepalive(self_keepalive, is_refresh),
                    !.entry_keepalive = self_keepalive # 0,
                    !.entry_connected = connected]
           d == [Dev EXCEPT !.lock = p,
                            !.tasks = Cancel(tasks, self_keepalive),
                            !.self_keepalive = 0]
       IN IF connected
          THEN /\ \E f \in BeginCmd(f0, 1, connected) : Continue(p, f, d)
               /\ sinceLast' = sinceLast
          ELSE /\ Continue(p, EnterConnect(f0), d)
               /\ sinceLast' = IF sinceLast < RateLimitFloor THEN sinceLast ELSE 0

\* _rate_limit after its sleep: self._last = time(), then the first connect.
RateLimitWake(p) ==
    /\ frame[p].pc = "rate_limit"
    /\ frame[p].timer = 0
    /\ sinceLast' = 0
    /\ Step(p, [frame[p] EXCEPT !.pc = "connect", !.retry = 0])
    /\ UNCHANGED <<password, pvars>>

\* await self._conn.connect() returns or raises.
ConnectDone(p, outcome) ==
    /\ frame[p].pc = "connect"
    /\ LET f == [frame[p] EXCEPT !.nconnect = @ + 1,
                                 !.nrefused = IF outcome = "refused" THEN @ + 1 ELSE @]
       IN
       CASE outcome = "ok" ->
              Continue(p, [f EXCEPT !.pc = "greeting"],
                       [Dev EXCEPT !.connected = TRUE, !.handshaken = FALSE])
         [] outcome = "refused" ->
              Step(p, [f EXCEPT !.pc = "refused_sleep",
                                !.timer = RefusedBackoff * (f.retry + 1)])
         [] outcome = "timeout" ->
              Step(p, Fail(f, "JvcProjectorConnectError", "Handshake init timeout"))
         [] OTHER ->
              Step(p, Fail(f, "JvcProjectorConnectError", ""))
    /\ UNCHANGED <<sinceLast, password, pvars>>

\* Mutant of Retry: one attempt more than MAX_RETRIES.
Retry_OffByOne(f) ==
    IF f.retry < MAX_RETRIES
    THEN [f EXCEPT !.retry = @ + 1, !.pc = "connect", !.timer = 0]
    ELSE Fail([f EXCEPT !.timer = 0],
              "JvcProjectorConnectError", "Retries exceeded")

\* Mutant of Retry: the greeting is read again without a new connect.
Retry_NoReconnect(f) ==
    IF f.retry + 1 < MAX_RETRIES
    THEN [f EXCEPT !.retry = @ + 1, !.pc = "greeting", !.timer = 0]
    ELSE Fail([f EXCEPT !.timer = 0],
              "JvcProjectorConnectError", "Retries exceeded")

\* The next iteration of the retry loop, or its exhaustion.
Retry(f) ==
    IF f.retry + 1 < MAX_RETRIES
    THEN [f EXCEPT !.retry = @ + 1, !.pc = "connect", !.timer = 0]
    ELSE Fail([f EXCEPT !.timer = 0],
              "JvcProjectorConnectError", "Retries exceeded")

\* The backoff sleep after a refused connection or a busy greeting is over.
BackoffWake(p) ==
    /\ frame[p].pc \in {"refused_sleep", "busy_sleep"}
    /\ frame[p].timer = 0
    /\ Step(p, Retry(frame[p]))
    /\ UNCHANGED <<sinceLast, password, pvars>>

\* Mutant of OnGreetingTimeout: the timeout is retried like a busy greeting.
OnGreetingTimeout_Retries(f) ==
    [f EXCEPT !.gto = TRUE, !.pc = "busy_sleep", !.timer = BusyBackoff * (f.retry + 1)]

\* The greeting read timed out: "except asyncio.TimeoutError" of _connect.
OnGreetingTimeout(f) ==
    Fail([f EXCEPT !.gto = TRUE], "JvcProjectorConnectError", "Handshake init timeout")

\* Mutant of OnGreetingInvalid: whatever is not the ok token is retried.
OnGreetingInvalid_Retries(f) ==
    [f EXCEPT !.ginv = TRUE, !.pc = "busy_sleep", !.timer = BusyBackoff * (f.retry + 1)]

\* The greeting is neither PJ_NG nor PJ_OK: "if data != PJOK: raise".
OnGreetingInvalid(f) ==
    Fail([f EXCEPT !.ginv = TRUE], "JvcProjectorCommandError", "Handshake init invalid")

\* data = await self._conn.read(len(PJOK)) in _connect.
GreetingRead(p, r) ==
    /\ frame[p].pc = "greeting"
    /\ LET f == [frame[p] EXCEPT !.ngreet = @ + 1,
                                 !.nbusy = IF r.kind = "data" /\ r.data = PJNG
                                           THEN @ + 1 ELSE @]
       IN
       CASE r.kind = "timeout" ->
              Step(p, OnGreetingTimeout(f))
         [] r.kind = "error" ->
              Step(p, Fail(f, "JvcProjectorConnectError", ""))
         [] r.data = PJNG ->
              Step(p, [f EXCEPT !.pc = "busy_sleep",
                                !.timer = BusyBackoff * (f.retry + 1)])
         [] r.data # PJOK ->
              Step(p, OnGreetingInvalid(f))
         [] OTHER ->
              \E g \in AuthWrite(f, self_auth, "auth1") : Step(p, g)
    /\ UNCHANGED <<sinceLast, password, pvars>>

\* hashlib.sha256(val).hexdigest(): the digest is not computed, the value
\* "sha256:" + val stands for it; like the digest it tells apart any two
\* messages and differs from every legacy credential.
Sha256Hex(val) == <<115, 104, 97, 50, 53, 54, 58>> \o val

\* _password_to_sha256(password): the hex SHA-256 of the decoded argument
\* with the salt appended.
password_to_sha256(pw) == Sha256Hex(pw \o AUTH_SALT)

\* The handshake is complete and _connect returns (its loop variable goes
\* out of scope): "cmd = None", then the first _send.
HandshakeDone(f, conn) == BeginCmd([f EXCEPT !.retry = 0], 1, conn)

\* Mutant of AuthReply: whatever is not the nak token is taken as an ack.
AuthReply_Lenient(data) == IF data = PJNAK THEN "nak" ELSE "ack"

\* How _authenticate reads an auth reply: "if auth_resp == PJNAK",
\* "if auth_resp != PJACK".
AuthReply(data) ==
    IF data = PJNAK THEN "nak" ELSE IF data # PJACK THEN "invalid" ELSE "ack"

\* auth_resp = await self._conn.read(len(PJACK)), first attempt.
Auth1Read(p, r) ==
    /\ frame[p].pc = "auth1"
    /\ LET f == [frame[p] EXCEPT !.arx = Append(@, r)] IN
       CASE r.kind = "timeout" ->
              Step(p, Fail(f, "JvcProjectorConnectError", "Handshake ack timeout"))
         [] r.kind = "error" ->
              Step(p, Fail(f, "JvcProjectorConnectError", ""))
         [] AuthReply(r.data) = "nak" ->
              \E g \in AuthWrite(f, password_to_sha256(self_auth), "auth2") : Step(p, g)
         [] AuthReply(r.data) = "invalid" ->
              Step(p, Fail(f, "JvcProjectorCommandError", "Handshake ack invalid"))
         [] OTHER ->
              \E g \in HandshakeDone(f, connected) :
                  Continue(p, g, [Dev EXCEPT !.handshaken = TRUE])
    /\ UNCHANGED <<sinceLast, password, pvars>>

\* auth_resp = await self._conn.read(len(PJACK)), second attempt.
Auth2Read(p, r) ==
    /\ frame[p].pc = "auth2"
    /\ LET f == [frame[p] EXCEPT !.arx = Append(@, r)] IN
       CASE r.kind = "timeout" ->
              Step(p, Fail(f, "JvcProjectorConnectError", "Handshake ack timeout"))
         [] r.kind = "error" ->
              Step(p, Fail(f, "JvcProjectorConnectError", ""))
         [] AuthReply(r.data) = "nak" ->
              Step(p, Fail(f, "JvcProjectorAuthError", ""))
         [] AuthReply(r.data) = "invalid" ->
              Step(p, Fail(f, "JvcProjectorCommandError", "Handshake ack invalid"))
         [] OTHER ->
              \E g \in HandshakeDone(f, connected) :
                  Continue(p, g, [Dev EXCEPT !.handshaken = TRUE])
    /\ UNCHANGED <<sinceLast, password, pvars>>

\* _send has finished with command idx without raising: the throttle sleep.
Throttle(f) == [f EXCEPT !.pc = "throttle", !.timer = ThrottleDelay]

\* Mutant of AckValid: only the header is compared.
AckValid_HeaderOnly(data, cmd) == StartsWith(data, HEAD_ACK)

\* The acknowledgement line is valid for the command.
AckValid(data, cmd) == StartsWith(data, HEAD_ACK \o SubSeq(cmd.code, 1, 2))

\* The response line is valid for the command.
ResValid(data, cmd) == StartsWith(data, HEAD_RES \o SubSeq(cmd.code, 1, 2))

\* The text _send stores as the command's response.
Decoded(data) ==
    IF Decodable(Slice(data, HEAD_LEN + 2, 1))
    THEN Slice(data, HEAD_LEN + 2, 1)
    ELSE Hex(data)

\* Mutant of OnReadTimeout: the timeout falls through to "cmd.ack = True".
OnReadTimeout_Acks(f) ==
    [f EXCEPT !.cmds[f.idx].ack = TRUE, !.pc = "throttle", !.timer = ThrottleDelay]

\* What _send does on a read timeout: it returns, and the loop of send
\* goes on to the throttle sleep.
OnReadTimeout(f) == Throttle(f)

\* The outcome r of a read made at the given stage of a command.
Got(stage, r) == [stage |-> stage, kind |-> r.kind, data |-> r.data]

\* data = await self._conn.readline(), the acknowledgement.
AckRead(p, r) ==
    /\ frame[p].pc = "ack"
    /\ LET cmd == frame[p].cmds[frame[p].idx]
           f == [frame[p] EXCEPT !.rx[frame[p].idx] = Got("ack", r),
                                 !.nconnect = 0, !.ngreet = 0,
                                 !.nrefused = 0, !.nbusy = 0]
       IN CASE r.kind = "timeout" -> Step(p, OnReadTimeout(f))
            [] r.kind = "error" -> Step(p, Fail(f, "ConnectionError", ""))
            [] ~AckValid(r.data, cmd) ->
                 Step(p, Fail(f, "JvcProjectorCommandError", "Response ack invalid"))
            [] cmd.is_ref -> Step(p, [f EXCEPT !.pc = "res"])
            [] OTHER -> Step(p, Throttle([f EXCEPT !.cmds[f.idx].ack = TRUE]))
    /\ UNCHANGED <<sinceLast, password, pvars>>

\* data = await self._conn.readline(), the response of a query.
ResRead(p, r) ==
    /\ frame[p].pc = "res"
    /\ LET cmd == frame[p].cmds[frame[p].idx]
           f == [frame[p] EXCEPT !.rx[frame[p].idx] = Got("res", r)]
       IN CASE r.kind = "timeout" -> Step(p, OnReadTimeout(f))
            [] r.kind = "error" -> Step(p, Fail(f, "ConnectionError", ""))
            [] ~ResValid(r.data, cmd) ->
                 Step(p, Fail(f, "JvcProjectorCommandError", "Ref ack invalid"))
            [] OTHER ->
                 Step(p, Throttle([f EXCEPT !.cmds[f.idx].response = Decoded(r.data),
                                            !.cmds[f.idx].ack = TRUE]))
    /\ UNCHANGED <<sinceLast, password, pvars>>

\* await asyncio.sleep(0.2) is over: the rest of the loop body and the
\* next iteration up to its await, or the end of the loop.
ThrottleWake(p) ==
    /\ frame[p].pc = "throttle"
    /\ frame[p].timer = 0
    /\ \E g \in NextCmd([frame[p] EXCEPT !.timer = 0], connected) : Step(p, g)
    /\ UNCHANGED <<sinceLast, password, pvars>>

\* The deferred disconnect _disconnect(KEEPALIVE_TTL) after its sleep.
KeepaliveFire(t) ==
    /\ tasks[t].st = "sleeping"
    /\ tasks[t].left = 0
    /\ self_keepalive' = 0
    /\ connected' = FALSE
    /\ handshaken' = FALSE
    /\ tasks' = [tasks EXCEPT ![t] = FreeTask]
    /\ UNCHANGED <<lock, sinceLast, frame, password, pvars>>

\* disconnect(): cancels the pending deferred disconnect and closes the
\* connection, without taking the lock.
Disconnect(p) ==
    /\ frame[p].pc = "idle"
    /\ tasks' = Cancel(tasks, self_keepalive)
    /\ self_keepalive' = 0
    /\ connected' = FALSE
    /\ handshaken' = FALSE
    /\ frame' = [q \in Callers |->
                   IF InSend(q) /\ connected
                   THEN [frame[q] EXCEPT !.cut = TRUE] ELSE frame[q]]
    /\ UNCHANGED <<lock, sinceLast, password, pvars>>

\* The sleeps in progress: those of the deferred disconnects and of the
\* callers inside send.
ActiveTimers ==
    { tasks[t].left : t \in { u \in TaskIds : tasks[u].st = "sleeping" } }
        \cup { frame[p].timer : p \in { q \in Callers : Sleeping(frame[q]) } }

\* The time to the next wake-up; with nothing asleep, the time after which
\* the rate limiter no longer waits.
TickLength ==
    IF ActiveTimers # {}
    THEN CHOOSE d \in ActiveTimers : \A e \in ActiveTimers : d <= e
    ELSE RateLimitFloor - sinceLast

\* Time passes up to the next wake-up: no sleep that is over is passed by.
Tick ==
    /\ TickLength > 0
    /\ tasks' = [t \in TaskIds |->
                   IF tasks[t].st = "sleeping"
                   THEN [tasks[t] EXCEPT !.left = @ - TickLength] ELSE tasks[t]]
    /\ frame' = [p \in Callers |->
                   IF Sleeping(frame[p])
                   THEN [frame[p] EXCEPT !.timer = @ - TickLength] ELSE frame[p]]
    /\ sinceLast' = Min(sinceLast + TickLength, RateLimitFloor)
    /\ UNCHANGED <<lock, connected, self_keepalive, password, handshaken, pvars>>

\* send has released the lock and its caller resumes with the commands
\* as send left them, or with the exception: the frame of the call is gone.
Return(p) ==
    /\ frame[p].pc = "done"
    /\ frame' = [frame EXCEPT ![p] = IdleFrame]
    /\ UNCHANGED <<lock, connected, self_keepalive, tasks, sinceLast, password, handshaken, pvars>>

\* No finished send is still to return; a finished send returns before
\* anything else happens.
NoneDone == \A p \in Callers : frame[p].pc # "done"

Next ==
    \/ \E p \in Callers : Return(p)
    \/ NoneDone /\ \E p \in Callers, batch \in Batches : SendEnter(p, batch)
    \/ NoneDone /\ \E p \in Callers : RateLimitWake(p)
    \/ NoneDone /\ \E p \in Callers, o \in ConnectOutcomes : ConnectDone(p, o)
    \/ NoneDone /\ \E p \in Callers : BackoffWake(p)
    \/ NoneDone /\ \E p \in Callers, r \in ReadOutcomes(GreetReplies, connected) :
                      GreetingRead(p, r)
    \/ NoneDone /\ \E p \in Callers, r \in ReadOutcomes(AuthReplies, connected) :
                      Auth1Read(p, r)
    \/ NoneDone /\ \E p \in Callers, r \in ReadOutcomes(AuthReplies, connected) :
                      Auth2Read(p, r)
    \/ NoneDone /\ \E p \in Callers, r \in ReadOutcomes(DeviceLines, connected) :
                      AckRead(p, r)
    \/ NoneDone /\ \E p \in Callers, r \in ReadOutcomes(DeviceLines, connected) :
                      ResRead(p, r)
    \/ NoneDone /\ \E p \in Callers : ThrottleWake(p)
    \/ NoneDone /\ \E t \in TaskIds : KeepaliveFire(t)
    \/ NoneDone /\ \E p \in Callers : Disconnect(p)
    \/ NoneDone /\ Tick

Spec == Init /\ [][Next]_vars

\* --------------------------------------------------------- specifications
\* The scheduling the event loop guarantees: time passes, a sleep that is
\* over wakes up, a pending read or connect ends (with data, a timeout or
\* an error), a finished send returns.  Whether and when a caller calls
\* send or disconnect is left to the caller.
SendStep(p) ==
    \/ Return(p)
    \/ /\ NoneDone
       /\ \/ RateLimitWake(p)
          \/ \E o \in ConnectOutcomes : ConnectDone(p, o)
          \/ BackoffWake(p)
          \/ \E r \in ReadOutcomes(GreetReplies, connected) : GreetingRead(p, r)
          \/ \E r \in ReadOutcomes(AuthReplies, connected) : Auth1Read(p, r)
          \/ \E r \in ReadOutcomes(AuthReplies, connected) : Auth2Read(p, r)
          \/ \E r \in ReadOutcomes(DeviceLines, connected) : AckRead(p, r)
          \/ \E r \in ReadOutcomes(DeviceLines, connected) : ResRead(p, r)
          \/ ThrottleWake(p)

Fairness ==
    /\ WF_vars(NoneDone /\ Tick)
    /\ WF_vars(NoneDone /\ \E t \in TaskIds : KeepaliveFire(t))
    /\ \A p \in Callers : WF_vars(SendStep(p))

\* The liveness claims are checked for a device constructed without a
\* password: the password only selects the bytes of the credentials.
InitNoPassword == Init /\ password = <<>>

FairSpec == InitNoPassword /\ [][Next]_vars /\ Fairness

\* ------------------------------------------------------ task cancellation
\* The awaits of send under the lock: the sleeps, the connect and the
\* reads of _connect, _authenticate and _send.
Suspended ==
    { "rate_limit", "connect", "refused_sleep", "busy_sleep", "greeting",
      "auth1", "auth2", "ack", "res", "throttle" }

\* CancelledError raised at the await the call is suspended at.  It is
\* not an Exception: "except Exception" does not catch it, keepalive stays
\* as it is, and the finally clause runs.
Cancelled(f) == [f EXCEPT !.exc = <<"CancelledError", "">>, !.pc = "finally"]

\* The task running send is cancelled while it is suspended.
CancelSend(p) ==
    /\ frame[p].pc \in Suspended
    /\ Step(p, Cancelled(frame[p]))
    /\ UNCHANGED <<sinceLast, password, pvars>>

CancelNext ==
    \/ Next
    \/ NoneDone /\ \E p \in Callers : CancelSend(p)

\* The device with callers whose send tasks can be cancelled.
CancelSpec == Init /\ [][CancelNext]_vars

\* The same under the scheduling of the event loop; when a task is
\* cancelled is left to its owner.
FairCancelSpec == InitNoPassword /\ [][CancelNext]_vars /\ Fairness

\* ---------------------------------------------------- the projector layer
\* JvcProjector (projector.py) on top of JvcDevice.  A call of
\* JvcDevice.send is one await of the projector: the batch is handed over
\* in one step and comes back in a later one, with the commands as send
\* can leave them, or with an exception.

\* command.TEST, and the opcodes of const.py the projector sends.
TEST == <<0, 0>>
CMD_INPUT == <<73, 80>>
CMD_SOURCE == <<83, 67>>
CMD_MODEL == <<77, 68>>
CMD_LAN_SETUP_MAC_ADDRESS == <<76, 83, 77, 65>>
CMD_FUNCTION_HDR == <<73, 70, 72, 82>>
CMD_PICTURE_MODE_8K_ESHIFT == <<80, 77, 85, 83>>
CMD_PICTURE_MODE_HDR_PROCESSING == <<80, 77, 72, 80>>

\* const.SIGNAL, NOSIGNAL, HDMI1, HDR_CONTENT_SDR, HDR_STATIC: "signal",
\* "nosignal", "hdmi1", "sdr", "static".
SIGNAL == <<115, 105, 103, 110, 97, 108>>
NOSIGNAL == <<110, 111, 115, 105, 103, 110, 97, 108>>
HDMI1 == <<104, 100, 109, 105, 49>>
HDR_CONTENT_SDR == <<115, 100, 114>>
HDR_STATIC == <<115, 116, 97, 116, 105, 99>>

\* "(unknown)", the model code "B5A1", a version "0300PJ", a mac "abcd1234".
UNKNOWN == <<40, 117, 110, 107, 110, 111, 119, 110, 41>>
MODEL_B5A1 == <<66, 53, 65, 49>>
VERSION_0300 == <<48, 51, 48, 48, 80, 74>>
MAC_ABCD == <<97, 98, 99, 100, 49, 50, 51, 52>>

\* const.MODEL_MAP, its entry for "B5A1" ("NZ9").
MODEL_MAP == (MODEL_B5A1 :> <<78, 90, 57>>)

\* "sub in s" on strings.
Contains(s, sub) ==
    \E i \in 1..(Len(s) - Len(sub) + 1) : SubSeq(s, i, i + Len(sub) - 1) = sub

\* process_model_code: MODEL_MAP.get(model[-4:], "Unsupported").
process_model_code(model) ==
    LET code == IF Len(model) <= 4 THEN model
                ELSE SubSeq(model, Len(model) - 3, Len(model))
    IN IF code \in DOMAIN MODEL_MAP THEN MODEL_MAP[code]
       ELSE <<85, 110, 115, 117, 112, 112, 111, 114, 116, 101, 100>>

\* The test of get_state for the model specific commands:
\* "NZ" in self._dict[KEY_MODEL] or "NX9" in self._dict[KEY_MODEL].
IsNZ(name) == Contains(name, <<78, 90>>) \/ Contains(name, <<78, 88, 57>>)

\* The text of the response a query can get from the device.  The power
\* query gets "0" or "1", which JvcCommand.response maps to "standby" and
\* "on"; the value tables of the other queries are not part of the model
\* and their text is given as the value the response property returns.
Answers(code) ==
    CASE code = CMD_POWER -> {<<48>>, <<49>>}
      [] code = CMD_INPUT -> {HDMI1}
      [] code = CMD_SOURCE -> {SIGNAL, NOSIGNAL}
      [] code = CMD_FUNCTION_HDR -> {HDR_CONTENT_SDR}
      [] code = CMD_PICTURE_MODE_8K_ESHIFT -> {ON}
      [] code = CMD_PICTURE_MODE_HDR_PROCESSING -> {HDR_STATIC}
      [] code = CMD_MODEL -> {MODEL_B5A1}
      [] code = CMD_LAN_SETUP_MAC_ADDRESS -> {MAC_ABCD}
      [] code = CMD_VERSION -> {VERSION_0300}
      [] OTHER -> {}

\* How JvcDevice.send can leave a command when it returns: acknowledged
\* (a query with its response), or untouched (a read timed out).
CmdResults(cmd) ==
    IF cmd.is_ref
    THEN {cmd} \cup { [cmd EXCEPT !.ack = TRUE, !.response = v] : v \in Answers(cmd.code) }
    ELSE {cmd, [cmd EXCEPT !.ack = TRUE]}

\* How JvcDevice.send can leave a batch that is not a refresh batch when
\* it returns without raising.
SendResults(cmds) ==
    { r \in [1..Len(cmds) -> UNION { CmdResults(cmds[i]) : i \in 1..Len(cmds) }] :
          \A i \in 1..Len(cmds) : r[i] \in CmdResults(cmds[i]) }

\* The batches of get_state in the order it sends them, each as the
\* (key, opcode) pairs of its dict.  The first is whole; of the 7, 6, 6 and
\* 2 commands of the others the leading ones are kept: input and source;
\* hdr; eshift; hdr_processing.
StateBatch ==
    << << <<"power", CMD_POWER>> >>,
       << <<"input", CMD_INPUT>>, <<"source", CMD_SOURCE>> >>,
       << <<"hdr", CMD_FUNCTION_HDR>> >>,
       << <<"eshift", CMD_PICTURE_MODE_8K_ESHIFT>> >>,
       << <<"hdr_processing", CMD_PICTURE_MODE_HDR_PROCESSING>> >> >>

\* cmd_vals of send_and_update for batch k.
StateCmds(k) == [i \in 1..Len(StateBatch[k]) |-> JvcCommand(StateBatch[k][i][2], TRUE)]

\* get_state after the model specific batch: the HDR specific batch is
\* sent unless self._dict.get("hdr") is "sdr".
AfterModel(d) == IF d["hdr"] # HDR_CONTENT_SDR THEN 5 ELSE 0

\* get_state after the signal dependent batch.
AfterSignal(d) == IF IsNZ(d["model"]) THEN 4 ELSE AfterModel(d)

\* The number of the batch get_state sends once batch k is back and
\* self._dict is updated to d; 0 when it returns.
NextStateBatch(k, d) ==
    CASE k = 1 -> IF d["power"] = ON THEN 2 ELSE 0
      [] k = 2 -> IF d["source"] = SIGNAL THEN 3 ELSE AfterSignal(d)
      [] k = 3 -> AfterSignal(d)
      [] k = 4 -> AfterModel(d)
      [] OTHER -> 0

\* A raise out of a projector call.
PFail(f, cls, msg) == [f EXCEPT !.exc = <<cls, msg>>, !.pc = "done"]

\* Mutant of P_send: the batch is handed to the device without the test.
P_send_NoGuard(f, dev, cmds, next) ==
    [f EXCEPT !.sent = Append(@, cmds), !.pc = next]

\* JvcProjector._send up to its await: it raises without a device, else
\* hands the batch to JvcDevice.send.
P_send(f, dev, cmds, next) ==
    IF ~dev
    THEN PFail(f, "JvcProjectorError", "Must call connect before sending commands")
    ELSE [f EXCEPT !.sent = Append(@, cmds), !.pc = next]

\* The batch a call is waiting for.
LastSent(f) == f.sent[Len(f.sent)]

\* The ways the batch a call is waiting for can come back.
Back(f) ==
    IF f.pc \in {"test", "info", "op", "ref", "state"}
    THEN SendResults(LastSent(f))
    ELSE {}

\* get_info from its device test on.
GetInfoBody(f, dev) ==
    IF ~dev
    THEN PFail(f, "JvcProjectorError", "Must call connect before getting info")
    ELSE P_send(f, dev, << JvcCommand(CMD_MODEL, TRUE),
                           JvcCommand(CMD_LAN_SETUP_MAC_ADDRESS, TRUE),
                           JvcCommand(CMD_VERSION, TRUE) >>, "info")

\* A step of a projector call that leaves the fields of the projector alone.
PStep(c, f) ==
    /\ pframe' = [pframe EXCEPT ![c] = f]
    /\ UNCHANGED <<self_device, self_ip, self_model, self_version, self_dict>>

\* connect() past the resolution of the host: a JvcDevice is made and the
\* test command sent.
CreateAndTest(c, f) ==
    /\ self_device' = TRUE
    /\ pframe' = [pframe EXCEPT ![c] =
                     P_send([f EXCEPT !.created = TRUE], TRUE,
                            << JvcCommand(TEST, FALSE) >>, "test")]
    /\ UNCHANGED <<self_model, self_version, self_dict>>

\* connect(get_info) up to its first await.
P_Connect(c, gi) ==
    /\ pframe[c].pc = "idle"
    /\ LET f == [PIdle EXCEPT !.call = "connect", !.gi = gi,
                              !.entry_device = self_device]
       IN IF self_device
          THEN PStep(c, [f EXCEPT !.pc = "done"])
          ELSE IF ~self_ip
               THEN PStep(c, [f EXCEPT !.pc = "resolve"])
               ELSE CreateAndTest(c, f) /\ UNCHANGED self_ip
    /\ UNCHANGED dvars

\* self._ip = await resolve(self._host) returns, or raises.
P_Resolved(c, ok) ==
    /\ pframe[c].pc = "resolve"
    /\ IF ok
       THEN CreateAndTest(c, pframe[c]) /\ self_ip' = TRUE
       ELSE PStep(c, PFail(pframe[c], "JvcProjectorConnectError", ""))
    /\ UNCHANGED dvars

\* disconnect() up to its await of JvcDevice.disconnect; without a device
\* it returns at once.
P_Disconnect(c) ==
    /\ pframe[c].pc = "idle"
    /\ PStep(c, [PIdle EXCEPT !.call = "disconnect", !.entry_device = self_device,
                              !.pc = IF self_device THEN "closing" ELSE "done"])
    /\ UNCHANGED dvars

\* JvcDevice.disconnect is back: self._device = None.
P_Disconnected(c) ==
    /\ pframe[c].pc = "closing"
    /\ self_device' = FALSE
    /\ pframe' = [pframe EXCEPT ![c] = [pframe[c] EXCEPT !.pc = "done"]]
    /\ UNCHANGED <<self_ip, self_model, self_version, self_dict>>
    /\ UNCHANGED dvars

\* op(code), with the power-on operation.
P_Op(c) ==
    /\ pframe[c].pc = "idle"
    /\ PStep(c, P_send([PIdle EXCEPT !.call = "op", !.entry_device = self_device],
                       self_device, << JvcCommand(OP_POWER_ON, FALSE) >>, "op"))
    /\ UNCHANGED dvars

\* ref(code), with the power query.
P_Ref(c) ==
    /\ pframe[c].pc = "idle"
    /\ PStep(c, P_send([PIdle EXCEPT !.call = "ref", !.entry_device = self_device],
                       self_device, << JvcCommand(CMD_POWER, TRUE) >>, "ref"))
    /\ UNCHANGED dvars

\* get_info() up to its await.
P_GetInfo(c) ==
    /\ pframe[c].pc = "idle"
    /\ PStep(c, GetInfoBody([PIdle EXCEPT !.call = "get_info",
                                          !.entry_device = self_device],
                            self_device))
    /\ UNCHANGED dvars

\* get_state() up to its first await: the device test, the static values
\* (process_version fails on a version that is None), the power batch.
P_GetState(c) ==
    /\ pframe[c].pc = "idle"
    /\ LET f == [PIdle EXCEPT !.call = "get_state", !.entry_device = self_device]
           d == [self_dict EXCEPT !["model"] = process_model_code(self_model)]
       IN IF ~self_device
          THEN /\ pframe' = [pframe EXCEPT ![c] =
                    PFail(f, "JvcProjectorError", "Must call connect before getting state")]
               /\ self_dict' = self_dict
          ELSE IF self_version = NONE
               THEN /\ pframe' = [pframe EXCEPT ![c] = PFail(f, "AttributeError", "")]
                    /\ self_dict' = d
               ELSE /\ pframe' = [pframe EXCEPT ![c] =
                         P_send([f EXCEPT !.batch = 1], self_device, StateCmds(1), "state")]
                    /\ self_dict' = d
    /\ UNCHANGED <<self_device, self_ip, self_model, self_version>>
    /\ UNCHANGED dvars

\* await self._device.send(cmds) raises: the exception leaves the call.
P_SendRaises(c) ==
    /\ pframe[c].pc \in {"test", "info", "op", "ref", "state"}
    /\ PStep(c, PFail(pframe[c], "DeviceError", ""))
    /\ UNCHANGED dvars

\* test() of connect is back: the connection is verified by the ack of the
\* test command; get_info follows when asked for.
P_TestBack(c, r) ==
    /\ pframe[c].pc = "test"
    /\ LET f == pframe[c] IN
       IF ~r[1].ack
       THEN PStep(c, PFail(f, "JvcProjectorConnectError", "Failed to verify connection"))
       ELSE IF f.gi
            THEN PStep(c, GetInfoBody(f, self_device))
            ELSE PStep(c, [f EXCEPT !.pc = "done"])
    /\ UNCHANGED dvars

\* A response that is None replaced by "(unknown)".
OrUnknown(v) == IF v = NONE THEN UNKNOWN ELSE v

\* The batch of get_info is back: the responses are stored (self._mac,
\* which nothing modelled reads, is not kept).
P_InfoBack(c, r) ==
    /\ pframe[c].pc = "info"
    /\ self_model' = OrUnknown(response(r[1]))
    /\ self_version' = response(r[3])
    /\ pframe' = [pframe EXCEPT ![c] = [pframe[c] EXCEPT !.pc = "done"]]
    /\ UNCHANGED <<self_device, self_ip, self_dict>>
    /\ UNCHANGED dvars

\* The batch of op or ref is back.
P_OpRefBack(c, r) ==
    /\ pframe[c].pc \in {"op", "ref"}
    /\ PStep(c, [pframe[c] EXCEPT !.pc = "done"])
    /\ UNCHANGED dvars

\* self._dict after send_and_update has stored the responses of batch k.
Updated(d, k, r) ==
    [key \in Keys |->
        IF \E i \in 1..Len(StateBatch[k]) : StateBatch[k][i][1] = key
        THEN response(r[CHOOSE i \in 1..Len(StateBatch[k]) : StateBatch[k][i][1] = key])
        ELSE d[key]]

\* A batch of get_state is back: send_and_update stores the responses and
\* get_state goes on to its next batch, or returns self._dict.
P_StateBack(c, r) ==
    /\ pframe[c].pc = "state"
    /\ LET f == pframe[c]
           k == f.batch
           d == Updated(self_dict, k, r)
           g == [f EXCEPT !.power = IF k = 1 THEN response(r[1]) ELSE @,
                          !.source = IF k = 2 THEN response(r[2]) ELSE @]
           n == NextStateBatch(k, d)
       IN /\ self_dict' = d
          /\ pframe' = [pframe EXCEPT ![c] =
                 IF n = 0 THEN [g EXCEPT !.pc = "done"]
                 ELSE P_send([g EXCEPT !.batch = n], self_device, StateCmds(n), "state")]
    /\ UNCHANGED <<self_device, self_ip, self_model, self_version>>
    /\ UNCHANGED dvars

\* The call has returned or raised: its frame is gone.
P_Return(c) ==
    /\ pframe[c].pc = "done"
    /\ PStep(c, PIdle)
    /\ UNCHANGED dvars

PNoneDone == \A c \in Callers : pframe[c].pc # "done"

ProjNext ==
    \/ \E c \in Callers : P_Return(c)
    \/ PNoneDone /\ \E c \in Callers, gi \in BOOLEAN : P_Connect(c, gi)
    \/ PNoneDone /\ \E c \in Callers, ok \in BOOLEAN : P_Resolved(c, ok)
    \/ PNoneDone /\ \E c \in Callers : P_Disconnect(c)
    \/ PNoneDone /\ \E c \in Callers : P_Disconnected(c)
    \/ PNoneDone /\ \E c \in Callers : P_Op(c)
    \/ PNoneDone /\ \E c \in Callers : P_Ref(c)
    \/ PNoneDone /\ \E c \in Callers : P_GetInfo(c)
    \/ PNoneDone /\ \E c \in Callers : P_GetState(c)
    \/ PNoneDone /\ \E c \in Callers : P_SendRaises(c)
    \/ PNoneDone /\ \E c \in Callers :
           \E r \in Back(pframe[c]) : P_TestBack(c, r)
    \/ PNoneDone /\ \E c \in Callers :
           \E r \in Back(pframe[c]) : P_InfoBack(c, r)
    \/ PNoneDone /\ \E c \in Callers :
           \E r \in Back(pframe[c]) : P_OpRefBack(c, r)
    \/ PNoneDone /\ \E c \in Callers :
           \E r \in Back(pframe[c]) : P_StateBack(c, r)

\* The projector with the device behind it summarised by SendResults.
ProjSpec == InitNoPassword /\ [][ProjNext]_vars

\* ------------------------------------------------- vocabulary of the claims
ConnectPcs ==
    {"rate_limit", "connect", "greeting", "refused_sleep", "busy_sleep", "auth1", "auth2"}

Done(p) == frame[p].pc = "done"
Raised(p) == frame[p].exc # NoExc
NoSleepingTask == \A t \in TaskIds : tasks[t].st # "sleeping"
Closed == ~connected /\ self_keepalive = 0 /\ NoSleepingTask

\* The positions in the batch of the command frames a call has written,
\* in the order written (credential writes left out).
RECURSIVE CmdWrites(_, _)
CmdWrites(f, log) ==
    IF log = <<>> THEN <<>>
    ELSE IF \E i \in 1..Len(f.cmds) : Head(log) = FrameOf(f.cmds[i])
         THEN <<Head(log)>> \o CmdWrites(f, Tail(log))
         ELSE CmdWrites(f, Tail(log))

NumCmdWrites(f) == Len(CmdWrites(f, f.wlog))
AuthWrites(f) == { k \in 1..Len(f.wlog) : SubSeq(f.wlog[k], 1, Len(PJREQ)) = PJREQ }

\* ------------------------------------------------------------------ C1
\* C1: at most one batch is in flight at a time: no two callers are inside
\* send between its entry and its keepalive-or-disconnect decision, and
\* the caller inside send is the one holding the lock.
C1_MutualExclusion ==
    \A p, q \in Callers :
        /\ (p # q => ~(InSend(p) /\ InSend(q)))
        /\ (InSend(p) => lock = p)

\* A batch is in flight, reading a response, while another caller is idle
\* and kept out by the lock.
C1_Witness ==
    \E p, q \in Callers :
        /\ p # q
        /\ frame[p].pc = "res"
        /\ frame[q].pc = "idle"
        /\ ~CanAcquire(q)

\* ------------------------------------------------------------------ C4
\* C4: whenever send raises, on return the connection is closed and no
\* deferred disconnect is pending; and a send that finds the connection
\* closed writes no command frame before a fresh connect and handshake.
C4_RaiseLeavesClosed ==
    \A p \in Callers :
        /\ (Done(p) /\ Raised(p) => Closed)
        /\ (InSend(p) /\ ~frame[p].entry_connected /\ frame[p].pc \notin ConnectPcs
                => /\ frame[p].wlog # <<>>
                   /\ 1 \in AuthWrites(frame[p]))

\* A send that entered with a keepalive window pending and had its first
\* command acknowledged raised on the second, and has closed the connection.
C4_Witness ==
    \E p \in Callers :
        /\ Done(p)
        /\ frame[p].exc[1] = "JvcProjectorCommandError"
        /\ frame[p].entry_keepalive
        /\ frame[p].idx = 2
        /\ frame[p].cmds[1].ack
        /\ Closed

\* ------------------------------------------------------------------ C6
\* The line read last for command i is malformed for the stage it was read at.
C6_Malformed(f, i) ==
    LET want == (IF f.rx[i].stage = "ack" THEN <<6, 137, 1>> ELSE <<64, 137, 1>>)
                    \o <<f.cmds[i].code[1], f.cmds[i].code[2]>>
    IN /\ f.rx[i].kind = "data"
       /\ \/ Len(f.rx[i].data) < 5
          \/ \E k \in 1..5 : f.rx[i].data[k] # want[k]

\* C6: a malformed acknowledgement or response line makes send raise the
\* command error; the command's ack stays False, its response unset, no
\* later command is written, and the connection is closed on return.
C6_MalformedLineRaises ==
    \A p \in Callers : \A i \in 1..Len(frame[p].cmds) :
        C6_Malformed(frame[p], i) =>
            /\ Done(p)
            /\ frame[p].exc[1] = "JvcProjectorCommandError"
            /\ frame[p].cmds[i].ack = FALSE
            /\ frame[p].cmds[i].response = NONE
            /\ frame[p].idx = i
            /\ NumCmdWrites(frame[p]) = i
            /\ Closed

\* A query's acknowledgement was valid and its response line carried the
\* wrong opcode prefix: the send has raised.
C6_Witness ==
    \E p \in Callers :
        /\ Done(p)
        /\ frame[p].idx = 1
        /\ Len(frame[p].cmds) = 2
        /\ frame[p].rx[1].stage = "res"
        /\ C6_Malformed(frame[p], 1)

\* ------------------------------------------------------------------ C7
\* C7: a deferred disconnect never closes the connection while a batch is
\* in flight: while a caller is inside send no deferred disconnect is
\* pending, so the timer fires before send takes the lock or never.
C7_NoTimerInFlight ==
    (\E p \in Callers : InSend(p)) => (NoSleepingTask /\ self_keepalive = 0)

\* A batch is in flight on a connection whose keepalive window was pending
\* when the send took the lock.
C7_Witness ==
    \E p \in Callers :
        /\ frame[p].pc = "throttle"
        /\ frame[p].entry_keepalive
        /\ connected

\* ------------------------------------------------------------------ C9
\* C9: a refresh batch that starts when no keepalive window is pending
\* never starts one: on its return the connection is closed and no
\* deferred disconnect is pending.
C9_RefreshStartsNoWindow ==
    \A p \in Callers :
        Done(p) /\ frame[p].is_refresh /\ ~frame[p].entry_keepalive => Closed

\* A refresh batch entered with no window pending, and every command of it
\* was acknowledged.
C9_Witness ==
    \E p \in Callers :
        /\ Done(p)
        /\ frame[p].is_refresh
        /\ ~frame[p].entry_keepalive
        /\ ~Raised(p)
        /\ \A i \in 1..Len(frame[p].cmds) : frame[p].cmds[i].ack

\* ------------------------------------------------------------------ C2
\* Every command of the batch was acknowledged and send did not raise.
Successful(f) == f.exc = NoExc /\ \A i \in 1..Len(f.cmds) : f.cmds[i].ack

\* A send that entered with the window pending and the connection open
\* makes no connect and no handshake; a send that entered with no window
\* pending found the connection closed and connects and authenticates
\* before its first command.
C2_ReuseOrReconnect ==
    \A p \in Callers :
        /\ (InSend(p) \/ Done(p)) /\ frame[p].entry_keepalive /\ frame[p].entry_connected
              => frame[p].pc \notin ConnectPcs /\ AuthWrites(frame[p]) = {}
        /\ (InSend(p) \/ Done(p)) /\ ~frame[p].entry_keepalive
              => /\ ~frame[p].entry_connected
                 /\ frame[p].pc \in ConnectPcs \/ Done(p) \/ 1 \in AuthWrites(frame[p])
                 /\ NumCmdWrites(frame[p]) > 0 => 1 \in AuthWrites(frame[p])

\* The keepalive window runs in full and the connection is open.
C2_WindowOpen ==
    /\ connected
    /\ self_keepalive # 0
    /\ tasks[self_keepalive] = [st |-> "sleeping", left |-> KEEPALIVE_TTL * 20]

\* C2 as stated: after any successful send (no disconnect() having been
\* called meanwhile) the connection is open with the window pending, so
\* that a second send before the window elapses reuses it without connect
\* or handshake, and one after the window elapsed connects afresh.
C2_Original ==
    /\ C2_ReuseOrReconnect
    /\ \A p \in Callers :
          Done(p) /\ Successful(frame[p]) /\ ~frame[p].cut => C2_WindowOpen

\* C2 amended: the same, for a successful send other than a refresh batch
\* that started with no window pending.
C2_KeepaliveReuse ==
    /\ C2_ReuseOrReconnect
    /\ \A p \in Callers :
          Done(p) /\ Successful(frame[p]) /\ ~frame[p].cut
                  /\ ~(frame[p].is_refresh /\ ~frame[p].entry_keepalive)
              => C2_WindowOpen

\* A second send entered inside the window of a successful one, has had
\* its command acknowledged without a connect or handshake of its own, and
\* has returned leaving a new window.
C2_Witness ==
    \E p \in Callers :
        /\ Done(p)
        /\ Successful(frame[p])
        /\ frame[p].entry_keepalive
        /\ frame[p].entry_connected
        /\ AuthWrites(frame[p]) = {}
        /\ C2_WindowOpen

\* ------------------------------------------------------------------ C3
\* C3 as stated: once the acknowledgement read of command i has timed out,
\* command i is left with ack = False, no later command of the batch is
\* written and send does not raise.
C3_TimeoutStopsBatch ==
    \A p \in Callers : \A i \in 1..Len(frame[p].cmds) :
        frame[p].rx[i].stage = "ack" /\ frame[p].rx[i].kind = "timeout" =>
            /\ frame[p].cmds[i].ack = FALSE
            /\ frame[p].idx = i
            /\ NumCmdWrites(frame[p]) = i
            /\ ~Raised(p)

\* ------------------------------------------------------------------ C5
\* C5 as stated: a send in which any read of any command timed out ends
\* with the connection closed and no keepalive window scheduled.
C5_TimeoutDisablesKeepalive ==
    \A p \in Callers :
        Done(p) /\ (\E i \in 1..Len(frame[p].cmds) : frame[p].rx[i].kind = "timeout")
            => Closed

\* ------------------------------------------------------------------ C8
\* A refresh batch has returned after writing its first command, and the
\* response of that command is absent or decodes to a value other than "on".
C8_PowerNotOn(p) ==
    /\ Done(p)
    /\ frame[p].is_refresh
    /\ NumCmdWrites(frame[p]) >= 1
    /\ response(frame[p].cmds[1]) # ON

\* Only the first command was executed.
C8_OnlyFirst(p) ==
    /\ NumCmdWrites(frame[p]) = 1
    /\ frame[p].idx = 1
    /\ \A i \in 2..Len(frame[p].cmds) :
          /\ frame[p].cmds[i].ack = FALSE
          /\ frame[p].cmds[i].response = NONE
          /\ frame[p].rx[i] = NoRead

\* C8 as stated: exactly one command is executed and send does not raise.
C8_Original ==
    \A p \in Callers : C8_PowerNotOn(p) => C8_OnlyFirst(p) /\ ~Raised(p)

\* C8 amended: exactly one command is executed; send does not raise when
\* the exchange of that command ended with a valid response or a read
\* timeout, and raises when a line of it was malformed or a read failed.
C8_PowerOffStopsBatch ==
    \A p \in Callers :
        C8_PowerNotOn(p) =>
            /\ C8_OnlyFirst(p)
            /\ Raised(p) <=> (frame[p].rx[1].kind = "error" \/ C6_Malformed(frame[p], 1))

\* The power query of a two-command refresh batch was answered "standby":
\* the send has returned after that one command, without raising.
C8_Witness ==
    \E p \in Callers :
        /\ C8_PowerNotOn(p)
        /\ Len(frame[p].cmds) = 2
        /\ frame[p].cmds[1].ack
        /\ response(frame[p].cmds[1]) = STANDBY
        /\ ~Raised(p)

\* ----------------------------------------------------------------- C10
\* Every batch that is being sent or has just returned is a refresh batch.
C10_OnlyRefresh == \A p \in Callers : frame[p].pc # "idle" => frame[p].is_refresh

\* C10 as stated: in an execution in which from some point on every batch
\* is a refresh batch, the connection is closed again and again.
C10_PollingClosesEventually == (<>[]C10_OnlyRefresh) => ([]<>(~connected))

\* ----------------------------------------------------------------- C11
\* The handshake of a send that found the connection closed has just
\* completed: the first command frame is written, nothing read for it yet.
HandshakeJustDone(p) ==
    /\ frame[p].pc = "ack"
    /\ frame[p].idx = 1
    /\ ~frame[p].entry_connected

\* C11: when the handshake completes after k attempts that ended refused
\* or busy (k < MAX_RETRIES), the send has made exactly k + 1 connect
\* calls and one greeting read per attempt that was not refused, and it
\* has gone on to write its first command.
C11_RetryCounts ==
    \A p \in Callers :
        HandshakeJustDone(p) =>
            LET f == frame[p]
                k == f.nrefused + f.nbusy
            IN /\ k < MAX_RETRIES
               /\ f.nconnect = k + 1
               /\ f.ngreet = f.nconnect - f.nrefused
               /\ 1 \in AuthWrites(f)
               /\ NumCmdWrites(f) = 1

\* busy, busy, ok: the handshake completed with 3 connects and 3 greeting
\* reads.
C11_Witness ==
    \E p \in Callers :
        /\ HandshakeJustDone(p)
        /\ frame[p].nbusy = 2
        /\ frame[p].nrefused = 0
        /\ frame[p].nconnect = 3
        /\ frame[p].ngreet = 3

\* ----------------------------------------------------------------- C12
\* A send never makes more than MAX_RETRIES connect calls, and one whose
\* every attempt ended refused or busy has returned raising "Retries
\* exceeded" after MAX_RETRIES of them, with nothing written and the
\* connection closed.
C12_Bounded ==
    \A p \in Callers :
        LET f == frame[p] IN
        /\ f.nconnect <= MAX_RETRIES
        /\ Done(p) /\ f.nconnect > 0 /\ f.nrefused + f.nbusy = f.nconnect
              => /\ f.exc = <<"JvcProjectorConnectError", "Retries exceeded">>
                 /\ f.nconnect = MAX_RETRIES
                 /\ f.wlog = <<>>
                 /\ Closed

\* C12: connection retry is bounded (C12_Bounded) and send always
\* terminates: every call that has entered send returns.
C12_BoundedRetryTerminates ==
    /\ []C12_Bounded
    /\ \A p \in Callers : InSend(p) ~> Done(p)

\* A send has returned with "Retries exceeded" after attempts of both
\* kinds, refused connects and busy greetings.
C12_Witness ==
    \E p \in Callers :
        /\ Done(p)
        /\ frame[p].exc = <<"JvcProjectorConnectError", "Retries exceeded">>
        /\ frame[p].nrefused > 0
        /\ frame[p].nbusy > 0
        /\ frame[p].nconnect = MAX_RETRIES

\* ----------------------------------------------------------------- C13
\* C13: a greeting read that timed out ends the send at once: the call has
\* returned raising the connect error, its last connect call is the one
\* whose greeting timed out (every connect that was not refused has had
\* its one greeting read), nothing was written and the connection is closed.
C13_GreetingTimeoutFatal ==
    \A p \in Callers :
        frame[p].gto =>
            /\ Done(p)
            /\ frame[p].exc = <<"JvcProjectorConnectError", "Handshake init timeout">>
            /\ frame[p].ngreet = frame[p].nconnect - frame[p].nrefused
            /\ frame[p].wlog = <<>>
            /\ Closed

\* The greeting read timed out on the third attempt, after a refused
\* connect and a busy greeting.
C13_Witness ==
    \E p \in Callers :
        /\ frame[p].gto
        /\ Done(p)
        /\ frame[p].nrefused = 1
        /\ frame[p].nbusy = 1
        /\ frame[p].nconnect = 3

\* ----------------------------------------------------------------- C14
\* The last auth reply the call has read.
LastAuth(f) == f.arx[Len(f.arx)]

\* C14: the auth exchange of a call.  At most two credentials are written,
\* before anything else; the first is the legacy credential; the second is
\* written only after a nak to the first.  An ack, first or second,
\* completes the handshake (the call goes on to its first command); a
\* second nak raises the auth error, a reply that is neither token raises
\* "Handshake ack invalid", a read timeout raises a connect error.  A call
\* that had to connect writes no command frame without an ack.
C14_AuthExchange ==
    \A p \in Callers :
        LET f == frame[p] IN
        /\ AuthWrites(f) \subseteq {1, 2}
        /\ Len(f.arx) <= Cardinality(AuthWrites(f))
        /\ 1 \in AuthWrites(f) => f.wlog[1] = PJREQ \o self_auth
        /\ 2 \in AuthWrites(f) =>
              /\ 1 \in AuthWrites(f)
              /\ f.arx # <<>>
              /\ f.arx[1] = [kind |-> "data", data |-> PJNAK]
        /\ f.arx # <<>> =>
              /\ LastAuth(f).kind = "data" /\ LastAuth(f).data = PJACK
                    => f.idx >= 1 /\ f.pc \notin ConnectPcs
                       /\ f.exc[1] \notin {"JvcProjectorAuthError", "JvcProjectorConnectError"}
              /\ Len(f.arx) = 2 /\ LastAuth(f).kind = "data" /\ LastAuth(f).data = PJNAK
                    => Done(p) /\ f.exc = <<"JvcProjectorAuthError", "">>
              /\ LastAuth(f).kind = "data" /\ LastAuth(f).data \notin {PJACK, PJNAK}
                    => Done(p) /\ f.exc = <<"JvcProjectorCommandError", "Handshake ack invalid">>
              /\ LastAuth(f).kind = "timeout"
                    => Done(p) /\ f.exc = <<"JvcProjectorConnectError", "Handshake ack timeout">>
        /\ NumCmdWrites(f) > 0 /\ ~f.entry_connected =>
              /\ f.arx # <<>>
              /\ LastAuth(f) = [kind |-> "data", data |-> PJACK]

\* nak, then ack: both credentials written, the handshake complete and
\* the first command frame written.
C14_Witness ==
    \E p \in Callers :
        /\ frame[p].arx = << [kind |-> "data", data |-> PJNAK],
                             [kind |-> "data", data |-> PJACK] >>
        /\ AuthWrites(frame[p]) = {1, 2}
        /\ NumCmdWrites(frame[p]) = 1

\* ----------------------------------------------------------------- C15
\* C15 as stated: when the device has replied nak, then ack, the
\* credential written on the second auth attempt is the hex SHA-256 of the
\* password itself followed by the salt, whatever the length of the password.
C15_FallbackHashesPassword ==
    \A p \in Callers :
        frame[p].arx = << [kind |-> "data", data |-> PJNAK],
                          [kind |-> "data", data |-> PJACK] >>
            => frame[p].wlog[2] = PJREQ \o Sha256Hex(password \o AUTH_SALT)

\* ----------------------------------------------------------------- C16
\* A greeting that was neither token has ended the send: it has returned
\* raising "Handshake init invalid", with no auth request and no command
\* frame written, no command acknowledged, and the connection closed.
C16_InvalidGreetingFatal(p) ==
    /\ Done(p)
    /\ frame[p].exc = <<"JvcProjectorCommandError", "Handshake init invalid">>
    /\ frame[p].wlog = <<>>
    /\ \A i \in 1..Len(frame[p].cmds) :
          frame[p].cmds[i].ack = FALSE /\ frame[p].cmds[i].response = NONE
    /\ Closed

\* C16 as stated: all that after exactly one connect call.
C16_Original ==
    \A p \in Callers :
        frame[p].ginv => C16_InvalidGreetingFatal(p) /\ frame[p].nconnect = 1

\* C16 amended: all that with no connect call after the one that was
\* answered by the invalid greeting: one call more than the refused and
\* busy attempts before it, exactly one when it answers the first attempt.
C16_InvalidGreeting ==
    \A p \in Callers :
        frame[p].ginv =>
            /\ C16_InvalidGreetingFatal(p)
            /\ frame[p].nconnect = frame[p].nrefused + frame[p].nbusy + 1
            /\ frame[p].ngreet = frame[p].nbusy + 1

\* The first greeting of a send was invalid: one connect call.
C16_Witness ==
    \E p \in Callers :
        /\ frame[p].ginv
        /\ Done(p)
        /\ frame[p].nconnect = 1
        /\ frame[p].ngreet = 1

\* ----------------------------------------------------------------- C17
\* The line read as the response of command i starts with the response
\* header and the first two bytes of the opcode.
C17_ValidResponseLine(f, i) ==
    /\ f.rx[i].stage = "res"
    /\ f.rx[i].kind = "data"
    /\ Len(f.rx[i].data) >= HEAD_LEN + 2
    /\ SubSeq(f.rx[i].data, 1, HEAD_LEN + 2) = <<64, 137, 1>> \o SubSeq(f.cmds[i].code, 1, 2)

\* C17: at every point of a send, and so when it returns or raises, a
\* command has a response (stored, or read through the property) only if
\* it is a query, acknowledged, with a valid response line received; an
\* operation never has one; a query whose response read timed out has
\* neither ack nor response.
C17_ResponseOnlyForAckedQuery ==
    \A p \in Callers : \A i \in 1..Len(frame[p].cmds) :
        LET f == frame[p]
            cmd == f.cmds[i]
        IN /\ (cmd.response # NONE \/ response(cmd) # NONE)
                 => cmd.is_ref /\ cmd.ack /\ C17_ValidResponseLine(f, i)
           /\ ~cmd.is_ref => cmd.response = NONE /\ response(cmd) = NONE
           /\ cmd.is_ref /\ f.rx[i].stage = "res" /\ f.rx[i].kind = "timeout"
                 => ~cmd.ack /\ cmd.response = NONE /\ response(cmd) = NONE

\* A send of two queries has returned: the first has its response, the
\* response read of the second timed out.
C17_Witness ==
    \E p \in Callers :
        /\ Done(p)
        /\ Len(frame[p].cmds) = 2
        /\ frame[p].cmds[1].is_ref /\ frame[p].cmds[1].ack
        /\ response(frame[p].cmds[1]) # NONE
        /\ frame[p].cmds[2].is_ref
        /\ frame[p].rx[2].stage = "res" /\ frame[p].rx[2].kind = "timeout"

\* ----------------------------------------------------------------- C18
\* C18 as stated, for the attempts of one send: sinceLast is the time since
\* self._last was stamped, which a send does in the step of its first
\* connect call.  If every connect call came RateLimitFloor or more after
\* the call before it, then whenever a retry (retry >= 1) has made its
\* connect call, at least RateLimitFloor has passed since the first.
C18_ConnectSpacing ==
    \A p \in Callers :
        frame[p].pc = "connect" /\ frame[p].retry >= 1
            => sinceLast >= RateLimitFloor

\* ----------------------------------------------------------------- C19
\* The acknowledgement line read for command i starts with the ack header
\* and the first two bytes of the opcode.
C19_ValidAckLine(f, i) ==
    /\ f.rx[i].kind = "data"
    /\ f.rx[i].stage = "ack"
    /\ Len(f.rx[i].data) >= HEAD_LEN + 2
    /\ SubSeq(f.rx[i].data, 1, HEAD_LEN + 2) = <<6, 137, 1>> \o SubSeq(f.cmds[i].code, 1, 2)

\* C19: an operation sent first on a closed device that answers the first
\* connect with the ok greeting: when the handshake is complete the send
\* has made exactly one connect call and has written the auth request(s)
\* and then the frame op-header + opcode + delimiter, in that order; and
\* once a valid acknowledgement line is read for an operation, its ack is
\* True, it has no response, and no second line is ever read for it.
C19_OperationExchange ==
    \A p \in Callers :
        LET f == frame[p] IN
        /\ HandshakeJustDone(p) /\ ~f.cmds[1].is_ref /\ f.nrefused + f.nbusy = 0
              => /\ f.nconnect = 1
                 /\ f.wlog[1] = PJREQ \o self_auth
                 /\ AuthWrites(f) = 1..(Len(f.wlog) - 1)
                 /\ f.wlog[Len(f.wlog)] = <<33, 137, 1>> \o f.cmds[1].code \o <<10>>
        /\ \A i \in 1..Len(f.cmds) :
              ~f.cmds[i].is_ref =>
                 /\ f.rx[i].stage # "res"
                 /\ C19_ValidAckLine(f, i) =>
                       /\ f.cmds[i].ack
                       /\ f.cmds[i].response = NONE
                       /\ response(f.cmds[i]) = NONE

\* A send of the one operation "PW1" on a closed device has returned with
\* the operation acknowledged, after one auth request and one frame.
C19_Witness ==
    \E p \in Callers :
        /\ Done(p)
        /\ ~frame[p].entry_connected
        /\ Len(frame[p].cmds) = 1
        /\ ~frame[p].cmds[1].is_ref
        /\ C19_ValidAckLine(frame[p], 1)
        /\ frame[p].cmds[1].ack
        /\ frame[p].wlog = << PJREQ \o self_auth, <<33, 137, 1, 80, 87, 49, 10>> >>

\* ----------------------------------------------------------------- C20
\* The payload of the response line read for command i: what lies between
\* the header with the two opcode bytes and the trailing delimiter.
C20_Payload(f, i) == SubSeq(f.rx[i].data, HEAD_LEN + 3, Len(f.rx[i].data) - 1)

\* A query has been acknowledged on a valid response line.
C20_Answered(f, i) ==
    /\ f.cmds[i].is_ref
    /\ f.cmds[i].ack
    /\ C17_ValidResponseLine(f, i)

\* What C20 says the response decodes to, for payload P: the power query
\* "PW" has a formatter that maps "0" to "standby" and "1" to "on" and
\* fails on anything else; the query "IFSV" has no formatter.
C20_Expected(code, P) ==
    IF code = <<80, 87>> /\ P = <<48>> THEN <<115, 116, 97, 110, 100, 98, 121>>
    ELSE IF code = <<80, 87>> /\ P = <<49>> THEN <<111, 110>>
    ELSE P

C22_UnderscoreCredential ==
    \A p \in Callers :
        password # <<>> /\ ~frame[p].entry_connected /\ frame[p].wlog # <<>> =>
            frame[p].wlog[1]
                = <<80, 74, 82, 69, 81>> \o <<95>> \o password
                    \o [k \in 1..(10 - Len(password)) |-> 0]

\* ----------------------------------------------------------------- C24
\* The exchange of command i is over: its acknowledgement and, for a
\* query, its response have been read, or a read of it has timed out.
C24_ExchangeOver(f, i) ==
    \/ f.rx[i].kind = "timeout"
    \/ /\ f.rx[i].kind = "data"
       /\ f.rx[i].stage = IF f.cmds[i].is_ref THEN "res" ELSE "ack"

\* C24: within one send the k-th command frame written is the frame of
\* the k-th command of the batch, so the frames are written in batch order
\* and none is written twice; the command being exchanged is the one
\* written last; and before the frame of command i + 1 was written the
\* exchange of command i was over.
C24_OrderedOnce ==
    \A p \in Callers :
        LET f == frame[p]
            w == CmdWrites(f, f.wlog)
        IN /\ Len(w) <= Len(f.cmds)
           /\ \A k \in 1..Len(w) :
                 w[k] = (IF f.cmds[k].is_ref THEN <<63, 137, 1>> ELSE <<33, 137, 1>>)
                            \o f.cmds[k].code \o <<10>>
           /\ Len(w) >= 1 =>
                 \/ f.idx = Len(w)
                 \/ f.idx = Len(w) + 1 /\ Done(p) /\ Raised(p)
           /\ \A i \in 1..(Len(w) - 1) : C24_ExchangeOver(f, i)

\* A batch of two commands whose first acknowledgement read timed out:
\* both frames were written, each once, and the send has returned.
C24_Witness ==
    \E p \in Callers :
        /\ Done(p)
        /\ Len(frame[p].cmds) = 2
        /\ frame[p].rx[1].kind = "timeout"
        /\ NumCmdWrites(frame[p]) = 2
        /\ frame[p].idx = 2

\* ----------------------------------------------------------------- C25
\* In runs in which no send task is cancelled: whenever a send writes a
\* command frame the connection is open and its handshake has completed
\* with an auth ack since it was opened; and whenever no send holds the
\* lock, a connection that is open has completed its handshake.
C25_HandshakenOnly ==
    /\ [](lock = 0 /\ connected => handshaken)
    /\ [][\A p \in Callers :
             NumCmdWrites(frame'[p]) > NumCmdWrites(frame[p])
                 => connected' /\ handshaken']_vars

\* A send that found the connection open, left by an earlier send, has
\* written its first command frame on it without a handshake of its own.
C25_Witness ==
    \E p \in Callers :
        /\ frame[p].pc = "ack"
        /\ frame[p].entry_connected
        /\ NumCmdWrites(frame[p]) = 1
        /\ AuthWrites(frame[p]) = {}
        /\ connected /\ handshaken

\* C25 as stated, for every run, runs in which the task of a send is
\* cancelled included: with the lock free an open connection has completed
\* its handshake, and a call that has just written a command frame on a
\* connection nobody closed under it has an open and handshaken one.
C25_AsStated ==
    /\ lock = 0 /\ connected => handshaken
    /\ \A p \in Callers :
           frame[p].pc = "ack" /\ ~frame[p].cut => connected /\ handshaken

\* ----------------------------------------------------------------- C26
\* C26: the lifetime of an idle connection is bounded.  A deferred
\* disconnect never has more than KEEPALIVE_TTL left to sleep; and from
\* any point at which the connection is open and no send holds the lock,
\* unless a send is issued, the connection gets closed (by the deferred
\* disconnect firing, or by disconnect()) and self._keepalive is cleared.
C26_IdleBounded ==
    /\ [](\A t \in TaskIds : tasks[t].left <= KEEPALIVE_TTL * 20)
    /\ (lock = 0 /\ connected) ~> ((~connected /\ self_keepalive = 0) \/ lock # 0)

\* Every caller is idle, the connection is open and the deferred
\* disconnect has slept its KEEPALIVE_TTL: it is about to fire.
C26_Witness ==
    /\ lock = 0
    /\ connected
    /\ \A p \in Callers : frame[p].pc = "idle"
    /\ self_keepalive # 0
    /\ tasks[self_keepalive] = [st |-> "sleeping", left |-> 0]

\* ----------------------------------------------------------------- C28
\* C28 as stated: the assertion at the start of every command exchange
\* (the connection is open) never fails, and between two commands of a
\* batch in flight the connection is open, whatever the interleaving of
\* sends, disconnect() calls and keepalive expiry.
C28_AssertionHolds ==
    \A p \in Callers :
        /\ frame[p].exc[1] # "AssertionError"
        /\ frame[p].pc = "throttle" /\ frame[p].idx < Len(frame[p].cmds) => connected

\* ----------------------------------------------------------------- C29
\* In runs in which no send task is cancelled: whenever no send holds the
\* lock, a connection that is open has a deferred disconnect pending, the
\* one self._keepalive refers to; and when disconnect() returns the
\* connection is closed, self._keepalive is cleared and no deferred
\* disconnect is pending.
C29_IdleOpenHasClose ==
    /\ [](lock = 0 /\ connected =>
              self_keepalive # 0 /\ tasks[self_keepalive].st = "sleeping")
    /\ [][(\E p \in Callers : Disconnect(p)) =>
              (~connected' /\ self_keepalive' = 0
                   /\ \A t \in TaskIds : tasks'[t].st # "sleeping")]_vars

\* Every caller is idle after a successful send: the connection is open
\* and its deferred disconnect, just created, is pending.
C29_Witness ==
    /\ lock = 0
    /\ \A p \in Callers : frame[p].pc = "idle"
    /\ connected
    /\ self_keepalive # 0
    /\ tasks[self_keepalive] = [st |-> "sleeping", left |-> KEEPALIVE_TTL * 20]

\* C29 as stated, for every run, runs in which the task of a send is
\* cancelled included: with the lock free, a connection that is open has
\* the deferred disconnect self._keepalive refers to pending.
C29_AsStated ==
    lock = 0 /\ connected =>
        self_keepalive # 0 /\ tasks[self_keepalive].st = "sleeping"

\* ----------------------------------------------------------------- C30
\* C30: at most one deferred disconnect is live at any time, and it is the
\* one self._keepalive refers to: a deferred disconnect that a later send
\* or disconnect() has cancelled is not live, so that the one that fires,
\* closes the connection and clears self._keepalive is never an older one
\* than the one referred to.
C30_OneLiveTask ==
    /\ [](Cardinality({ t \in TaskIds : tasks[t].st = "sleeping" }) <= 1)
    /\ [](\A t \in TaskIds : tasks[t].st = "sleeping" => self_keepalive = t)
    /\ [][\A t \in TaskIds : KeepaliveFire(t) => self_keepalive = t]_vars

\* A send has cancelled the deferred disconnect it found pending and has
\* left a new one, which is the only one live and has its whole sleep ahead.
C30_Witness ==
    \E p \in Callers :
        /\ Done(p)
        /\ frame[p].entry_keepalive
        /\ self_keepalive # 0
        /\ { t \in TaskIds : tasks[t].st = "sleeping" } = {self_keepalive}
        /\ tasks[self_keepalive].left = KEEPALIVE_TTL * 20

\* ----------------------------------------------------------------- C23
\* C23: op, ref, get_info and get_state called while the projector has no
\* device (before connect() or after disconnect()) end at once with
\* JvcProjectorError and have handed nothing to the device; connect()
\* called while the projector has a device ends at once without an
\* exception, has made no device and has handed nothing to the device.
C23_GuardedCalls ==
    \A c \in Callers :
        LET f == pframe[c] IN
        /\ f.call \in {"op", "ref", "get_info", "get_state"} /\ ~f.entry_device
               => /\ f.pc = "done"
                  /\ f.exc[1] = "JvcProjectorError"
                  /\ f.sent = <<>>
        /\ f.call = "connect" /\ f.entry_device
               => /\ f.pc = "done"
                  /\ f.exc = NoExc
                  /\ f.sent = <<>>
                  /\ ~f.created

\* get_state has been called after a connect() and a disconnect() (the
\* host is resolved, the device is gone) and has raised.
C23_Witness ==
    \E c \in Callers :
        /\ pframe[c].call = "get_state"
        /\ pframe[c].pc = "done"
        /\ ~pframe[c].entry_device
        /\ self_ip
        /\ ~self_device
        /\ pframe[c].exc[1] = "JvcProjectorError"
        /\ pframe[c].sent = <<>>

\* ----------------------------------------------------------------- C27
\* The batches of get_state that hold a given query.
C27_BatchesWith(f, code) ==
    { i \in 1..Len(f.sent) : \E j \in 1..Len(f.sent[i]) : f.sent[i][j].code = code }

\* A value a query has stored in self._dict.
C27_IsValue(v) == v # ABSENT /\ v # NONE

\* The order of the batches of get_state: the first batch is the power
\* query alone; the input and source queries are sent only after the call's
\* own power response decoded to "on" and the signal-dependent queries
\* only after its own source response decoded to "signal"; a call that
\* returns with a power response other than "on" has sent one command.
C27_Order ==
    \A c \in Callers :
        LET f == pframe[c] IN
        f.call = "get_state" =>
            /\ f.sent # <<>> => f.sent[1] = << JvcCommand(CMD_POWER, TRUE) >>
            /\ C27_BatchesWith(f, CMD_POWER) \subseteq {1}
            /\ C27_BatchesWith(f, CMD_INPUT) \cup C27_BatchesWith(f, CMD_SOURCE) # {}
                   => f.power = ON
            /\ C27_BatchesWith(f, CMD_FUNCTION_HDR) # {}
                   => f.power = ON /\ f.source = SIGNAL
            /\ f.pc = "done" /\ f.exc = NoExc /\ f.power # ON
                   => Len(f.sent) = 1 /\ Len(f.sent[1]) = 1

\* The state a get_state call returns when its power response is not
\* "on" holds no input and no source value: with no other get_state in
\* progress such a value can only be one an earlier call has stored.
C27_NoStaleValue ==
    \A c \in Callers :
        LET f == pframe[c] IN
        /\ f.call = "get_state" /\ f.pc = "done" /\ f.exc = NoExc
        /\ f.power # ON
        /\ \A o \in Callers \ {c} : pframe[o].call # "get_state"
        => /\ ~C27_IsValue(self_dict["input"])
           /\ ~C27_IsValue(self_dict["source"])

\* C27 as stated: get_state sends the power query first as its own batch,
\* the input and source queries only if that response decoded to "on", the
\* signal-dependent queries only if the source then decoded to "signal";
\* when power is not "on" exactly one command is sent and the returned
\* state holds no input or source value from an earlier get_state call.
C27_AsStated == C27_Order /\ C27_NoStaleValue

\* get_state returns after a "standby" response to its one command, and
\* the state it returns holds an input and a source value.
C27_StaleReturned ==
    \E c \in Callers :
        /\ pframe[c].call = "get_state"
        /\ pframe[c].pc = "done"
        /\ pframe[c].exc = NoExc
        /\ pframe[c].power = STANDBY
        /\ Len(pframe[c].sent) = 1
        /\ \A o \in Callers \ {c} : pframe[o].pc = "idle"
        /\ C27_IsValue(self_dict["input"])
        /\ C27_IsValue(self_dict["source"])

\* ----------------------------------------------------------------- C32
\* C32 as stated: when connect() raises after it has made a device (the
\* test command was not acknowledged, or the device layer raised), the
\* projector is left without a device, so that a later connect() makes a
\* device and runs the test again.
C32_AsStated ==
    \A c \in Callers :
        LET f == pframe[c] IN
        /\ f.call = "connect" /\ f.pc = "done"
        /\ f.exc # NoExc
        /\ f.created
        => ~self_device

\* ----------------------------------------------------------------- C31
\* The send of p has ended by the cancellation of its task: with
\* CancelledError, or with the UnboundLocalError its finally clause raised
\* on the way out.
C31_CancelledOut(p) ==
    /\ Done(p)
    /\ frame[p].exc[1] \in {"CancelledError", "UnboundLocalError"}

\* The connection is closed, or the deferred disconnect self._keepalive
\* refers to is pending.
C31_ClosedOrCovered ==
    \/ ~connected
    \/ self_keepalive # 0 /\ tasks[self_keepalive].st = "sleeping"

\* A cancelled send has released the lock when it ends.
C31_LockReleased ==
    \A p \in Callers : C31_CancelledOut(p) => lock = 0

\* A send cancelled once cmd is bound (past its connect and handshake)
\* ends with the connection closed or covered.
C31_BoundCmdCovered ==
    \A p \in Callers :
        C31_CancelledOut(p) /\ frame[p].idx # Unbound => C31_ClosedOrCovered

\* C31 as stated: a send whose task is cancelled while it is suspended
\* releases the lock and ends with the connection closed or covered by a
\* pending deferred disconnect; with the lock free, a connection that is
\* open has completed its handshake.
C31_AsStated ==
    /\ \A p \in Callers :
           C31_CancelledOut(p) => lock = 0 /\ C31_ClosedOrCovered
    /\ lock = 0 /\ connected => handshaken

====
